---- MODULE Spec2Model ----
(***************************************************************************)
(* Model of the three generated agents of gh-pipeline-agents               *)
(* (github-actions-error-analyzer, -collector, -remediator): the           *)
(* handle_message dispatcher of each agent class, the module-level task    *)
(* functions it reaches, and the parse_*_output reconciliation functions.  *)
(*                                                                         *)
(* Python values are tagged records:                                       *)
(*   [t |-> "none"]                 None                                   *)
(*   [t |-> "int",  i |-> 3]        an int                                 *)
(*   [t |-> "float", f |-> "nan"]   a float (only the non-finite ones)     *)
(*   [t |-> "str",  s |-> <<..>>]   a str, as the sequence of its pieces;  *)
(*                                  "-" and "_" are pieces of their own    *)
(*   [t |-> "list", l |-> <<..>>]   a list                                 *)
(*   [t |-> "dict", o |-> f]        a dict with str keys (f a function     *)
(*                                  from key to value)                     *)
(*   [t |-> "model", cls |-> c, o |-> f]  an instance of pydantic model c  *)
(***************************************************************************)
EXTENDS Integers, Sequences, FiniteSets, TLC

\* ---------------------------------------------------------------- values

PyNone == [t |-> "none"]
PyInt(n) == [t |-> "int", i |-> n]
PyFloat(x) == [t |-> "float", f |-> x]
PyStr(pieces) == [t |-> "str", s |-> pieces]
Lit(word) == PyStr(<<word>>)
PyList(items) == [t |-> "list", l |-> items]
PyDict(f) == [t |-> "dict", o |-> f]
EmptyDict == PyDict(<<>>)
PyModel(c, f) == [t |-> "model", cls |-> c, o |-> f]

IsStr(v) == v.t = "str"
IsDict(v) == v.t = "dict"

\* bool(v): the truth value Python gives a value
Truthy(v) ==
    CASE v.t = "none" -> FALSE
      [] v.t = "int" -> v.i # 0
      [] v.t = "float" -> TRUE
      [] v.t = "str" -> v.s # <<>>
      [] v.t = "list" -> v.l # <<>>
      [] v.t = "dict" -> DOMAIN v.o # {}
      [] OTHER -> TRUE

\* d.get(k): the value under k, None when the key is absent
DictGet(d, k) == IF k \in DOMAIN d.o THEN d.o[k] ELSE PyNone

\* {k: v for k, v in d.items() if k != drop}
DictWithout(d, drop) == PyDict([k \in (DOMAIN d.o) \ {drop} |-> d.o[k]])

\* A dispatcher that looks the task id up as it is written
KeepHyphens(pieces) == pieces

\* str.replace("-", "_") on the pieces of a str
ReplaceHyphens(pieces) ==
    [n \in 1..Len(pieces) |-> IF pieces[n] = "-" THEN "_" ELSE pieces[n]]

\* json.loads(text): the value a JSON document decodes to.  A str is either
\* the serialisation of a value (field json) or raw pieces (field s).  Of raw
\* pieces json.loads accepts a numeral, null, and the non-standard literals
\* NaN, Infinity and -Infinity (parse_constant, on by default); everything
\* else raises json.JSONDecodeError.
Digits == <<"0", "1", "2", "3", "4", "5", "6", "7", "8", "9">>
IsDigit(c) == \E d \in 1..Len(Digits) : Digits[d] = c
DigitValue(c) == (CHOOSE d \in 1..Len(Digits) : Digits[d] = c) - 1
IsNumeral(pieces) == pieces # <<>> /\ \A n \in 1..Len(pieces) : IsDigit(pieces[n])
RECURSIVE ParseInt(_)
ParseInt(pieces) ==
    IF pieces = <<>> THEN 0
    ELSE 10 * ParseInt(SubSeq(pieces, 1, Len(pieces) - 1)) + DigitValue(pieces[Len(pieces)])

Return(v) == [k |-> "return", v |-> v]
Raise(type, msg) == [k |-> "raise", exc |-> [type |-> type, msg |-> msg]]
Returned(out) == out.k = "return"
Raised(out) == out.k = "raise"

JsonText(v) == IF v.t = "none" THEN Lit("null") ELSE [t |-> "str", json |-> v]
IsJsonText(v) == v.t = "str" /\ "json" \in DOMAIN v

JsonLoads(text) ==
    IF IsJsonText(text) THEN Return(text.json)
    ELSE IF IsNumeral(text.s) THEN Return(PyInt(ParseInt(text.s)))
    ELSE IF text.s = <<"null">> THEN Return(PyNone)
    ELSE IF text.s = <<"NaN">> THEN Return(PyFloat("nan"))
    ELSE IF text.s = <<"Infinity">> THEN Return(PyFloat("inf"))
    ELSE IF text.s = <<"-", "Infinity">> THEN Return(PyFloat("-inf"))
    ELSE Raise("JSONDecodeError", <<"Expecting value">>)

\* Whether a text is a JSON document of RFC 8259 (what "strict" parsing takes).
StrictJson(text) ==
    IsJsonText(text) \/ IsNumeral(text.s) \/ text.s = <<"null">>

\* ------------------------------------------------------- output models

TStr == [k |-> "str"]
TInt == [k |-> "int"]
TList(e) == [k |-> "list", e |-> e]
TModel(c) == [k |-> "model", c |-> c]
\* a field declared `name: T`
Req(ty) == [ty |-> ty, required |-> TRUE]
\* a field declared `name: Optional[T] = None`
Opt(ty) == [ty |-> ty, required |-> FALSE]

Analyze_ErrorOutputAnalysis_Result ==
    [root_cause |-> Req(TStr), error_category |-> Req(TStr),
     confidence_level |-> Req(TStr), impact_assessment |-> Req(TStr)]
Analyze_ErrorOutputRecommended_FixesItemCode_ChangesItem ==
    [file_path |-> Opt(TStr), suggested_change |-> Opt(TStr), change_type |-> Opt(TStr)]
Analyze_ErrorOutputRecommended_FixesItem ==
    [fix_title |-> Req(TStr), fix_description |-> Req(TStr), fix_type |-> Req(TStr),
     estimated_effort |-> Req(TStr),
     code_changes |-> Opt(TList(TModel("Analyze_ErrorOutputRecommended_FixesItemCode_ChangesItem"))),
     commands_to_run |-> Opt(TList(TStr)), prerequisites |-> Opt(TList(TStr))]
Analyze_ErrorOutputDeveloper_MessageRelated_DocumentationItem ==
    [title |-> Opt(TStr), url |-> Opt(TStr)]
Analyze_ErrorOutputDeveloper_Message ==
    [summary |-> Req(TStr), detailed_explanation |-> Req(TStr), next_steps |-> Req(TList(TStr)),
     related_documentation |-> Opt(TList(TModel("Analyze_ErrorOutputDeveloper_MessageRelated_DocumentationItem"))),
     prevention_tips |-> Opt(TList(TStr))]
Analyze_ErrorOutput ==
    [analysis_result |-> Req(TModel("Analyze_ErrorOutputAnalysis_Result")),
     recommended_fixes |-> Req(TList(TModel("Analyze_ErrorOutputRecommended_FixesItem"))),
     developer_message |-> Req(TModel("Analyze_ErrorOutputDeveloper_Message")),
     urgency_level |-> Req(TStr)]
Generate_Pr_CommentOutputComment_Metadata ==
    [comment_type |-> Req(TStr), tags |-> Req(TList(TStr)), urgency |-> Req(TStr)]
Generate_Pr_CommentOutput ==
    [pr_comment |-> Req(TStr),
     comment_metadata |-> Req(TModel("Generate_Pr_CommentOutputComment_Metadata"))]
Suggest_Workflow_ImprovementsOutputWorkflow_ImprovementsItem ==
    [improvement_title |-> Req(TStr), improvement_description |-> Req(TStr),
     improvement_type |-> Req(TStr), implementation_difficulty |-> Req(TStr),
     expected_benefit |-> Req(TStr), workflow_changes |-> Opt(TStr)]
Suggest_Workflow_ImprovementsOutput ==
    [workflow_improvements |-> Req(TList(TModel("Suggest_Workflow_ImprovementsOutputWorkflow_ImprovementsItem"))),
     prevention_strategies |-> Req(TList(TStr)),
     monitoring_recommendations |-> Req(TList(TStr))]

Collect_ErrorsOutputError_Summary ==
    [primary_error |-> Req(TStr), error_type |-> Req(TStr), severity |-> Req(TStr),
     affected_files |-> Opt(TList(TStr)), stack_trace |-> Opt(TStr),
     error_context |-> Opt(TStr), suggested_keywords |-> Opt(TList(TStr))]
Collect_ErrorsOutputJob_Context ==
    [job_name |-> Req(TStr), workflow_name |-> Req(TStr), repository |-> Req(TStr),
     branch |-> Opt(TStr), commit_sha |-> Opt(TStr), pr_number |-> Opt(TInt),
     failed_step |-> Opt(TStr)]
Collect_ErrorsOutputLog_Statistics ==
    [total_lines |-> Req(TInt), error_lines |-> Req(TInt), warning_lines |-> Req(TInt),
     duration_estimate |-> Opt(TStr)]
Collect_ErrorsOutput ==
    [error_summary |-> Req(TModel("Collect_ErrorsOutputError_Summary")),
     job_context |-> Req(TModel("Collect_ErrorsOutputJob_Context")),
     log_statistics |-> Req(TModel("Collect_ErrorsOutputLog_Statistics"))]
Extract_Build_InfoOutputEnvironment_Info ==
    [os |-> Opt(TStr), node_version |-> Opt(TStr), python_version |-> Opt(TStr),
     java_version |-> Opt(TStr)]
Extract_Build_InfoOutput ==
    [build_commands |-> Req(TList(TStr)), dependencies |-> Req(TList(TStr)),
     build_artifacts |-> Opt(TList(TStr)),
     environment_info |-> Opt(TModel("Extract_Build_InfoOutputEnvironment_Info"))]

Propose_RemediationOutput ==
    [proposed_diff |-> Req(TStr), files_to_change |-> Req(TList(TStr)), rationale |-> Req(TStr)]

\* model_fields of the class named c
ModelFields(c) ==
    CASE c = "Analyze_ErrorOutputAnalysis_Result" -> Analyze_ErrorOutputAnalysis_Result
      [] c = "Analyze_ErrorOutputRecommended_FixesItemCode_ChangesItem" ->
            Analyze_ErrorOutputRecommended_FixesItemCode_ChangesItem
      [] c = "Analyze_ErrorOutputRecommended_FixesItem" -> Analyze_ErrorOutputRecommended_FixesItem
      [] c = "Analyze_ErrorOutputDeveloper_MessageRelated_DocumentationItem" ->
            Analyze_ErrorOutputDeveloper_MessageRelated_DocumentationItem
      [] c = "Analyze_ErrorOutputDeveloper_Message" -> Analyze_ErrorOutputDeveloper_Message
      [] c = "Analyze_ErrorOutput" -> Analyze_ErrorOutput
      [] c = "Generate_Pr_CommentOutputComment_Metadata" -> Generate_Pr_CommentOutputComment_Metadata
      [] c = "Generate_Pr_CommentOutput" -> Generate_Pr_CommentOutput
      [] c = "Suggest_Workflow_ImprovementsOutputWorkflow_ImprovementsItem" ->
            Suggest_Workflow_ImprovementsOutputWorkflow_ImprovementsItem
      [] c = "Suggest_Workflow_ImprovementsOutput" -> Suggest_Workflow_ImprovementsOutput
      [] c = "Collect_ErrorsOutputError_Summary" -> Collect_ErrorsOutputError_Summary
      [] c = "Collect_ErrorsOutputJob_Context" -> Collect_ErrorsOutputJob_Context
      [] c = "Collect_ErrorsOutputLog_Statistics" -> Collect_ErrorsOutputLog_Statistics
      [] c = "Collect_ErrorsOutput" -> Collect_ErrorsOutput
      [] c = "Extract_Build_InfoOutputEnvironment_Info" -> Extract_Build_InfoOutputEnvironment_Info
      [] c = "Extract_Build_InfoOutput" -> Extract_Build_InfoOutput
      [] c = "Propose_RemediationOutput" -> Propose_RemediationOutput

\* ------------------------------------------- pydantic validation (v2, lax)

\* The result of validating a value: the validated value and the set of
\* errors, each the location (a path of pieces) and the error type.
Valid(v) == [v |-> v, errs |-> {}]
Invalid(loc, type) == [v |-> PyNone, errs |-> {[loc |-> loc, type |-> type]}]

\* The errors of the results rs, and the results of the items of a list and
\* of the fields of a model put together
ErrsOf(rs) == UNION {rs[k].errs : k \in DOMAIN rs}
ListResult(rs) ==
    [v |-> IF ErrsOf(rs) = {} THEN PyList([n \in DOMAIN rs |-> rs[n].v]) ELSE PyNone,
     errs |-> ErrsOf(rs)]
ModelResult(c, rs) ==
    [v |-> IF ErrsOf(rs) = {} THEN PyModel(c, [f \in DOMAIN rs |-> rs[f].v]) ELSE PyNone,
     errs |-> ErrsOf(rs)]

RECURSIVE Validate(_, _, _)
RECURSIVE ValidateField(_, _, _, _)

\* A validation under which every declared field must be present
ValidateFieldAllRequired(d, f, field, loc) ==
    IF f \notin DOMAIN d.o THEN Invalid(loc, "missing")
    ELSE IF ~field.required /\ d.o[f].t = "none" THEN Valid(PyNone)
    ELSE Validate(d.o[f], field.ty, loc)

\* A validation under which None is no value of an optional field
ValidateFieldNoneRejected(d, f, field, loc) ==
    IF f \notin DOMAIN d.o
    THEN IF field.required THEN Invalid(loc, "missing") ELSE Valid(PyNone)
    ELSE Validate(d.o[f], field.ty, loc)

\* A validation under which a key the class does not declare is an error
\* (extra="forbid")
ValidateModelForbidExtra(d, c, loc) ==
    IF (DOMAIN d.o) \ (DOMAIN ModelFields(c)) # {}
    THEN Invalid(loc, "extra_forbidden")
    ELSE ModelResult(c, [f \in DOMAIN ModelFields(c) |->
                            ValidateField(d, f, ModelFields(c)[f], Append(loc, f))])

\* BaseModel validation of the mapping d against class c: a declared field is
\* validated, a missing required field is an error, a missing optional field
\* takes the class default None, and keys the class does not declare are
\* ignored (extra="ignore", the default).
ValidateModel(d, c, loc) ==
    ModelResult(c, [f \in DOMAIN ModelFields(c) |->
                        ValidateField(d, f, ModelFields(c)[f], Append(loc, f))])

ValidateField(d, f, field, loc) ==
    IF f \notin DOMAIN d.o
    THEN IF field.required THEN Invalid(loc, "missing") ELSE Valid(PyNone)
    ELSE IF ~field.required /\ d.o[f].t = "none" THEN Valid(PyNone)
    ELSE Validate(d.o[f], field.ty, loc)

Validate(v, ty, loc) ==
    CASE ty.k = "str" ->
            IF v.t = "str" THEN Valid(v) ELSE Invalid(loc, "string_type")
      [] ty.k = "int" ->
            IF v.t = "int" THEN Valid(v)
            ELSE IF v.t = "str"
                 THEN IF ~IsJsonText(v) /\ IsNumeral(v.s)
                      THEN Valid(PyInt(ParseInt(v.s)))
                      ELSE Invalid(loc, "int_parsing")
                 ELSE Invalid(loc, "int_type")
      [] ty.k = "list" ->
            IF v.t # "list" THEN Invalid(loc, "list_type")
            ELSE ListResult([n \in 1..Len(v.l) |->
                                Validate(v.l[n], ty.e, Append(loc, ToString(n - 1)))])
      [] ty.k = "model" ->
            IF v.t = "model" /\ v.cls = ty.c THEN Valid(v)
            ELSE IF v.t = "dict" THEN ValidateModel(v, ty.c, loc)
            ELSE Invalid(loc, "model_type")

\* model_class(**response): a response that is no mapping cannot be unpacked
\* (TypeError); a mapping is validated (ValidationError on any error).
Constructed(c, r) ==
    IF r.errs = {} THEN Return(r.v)
    ELSE Raise("ValidationError", <<"validation error for ", c>>)
Construct(c, response) ==
    IF ~IsDict(response)
    THEN Raise("TypeError", <<"argument after ** must be a mapping">>)
    ELSE Constructed(c, ValidateModel(response, c, <<>>))

\* The locations pydantic reports as missing when it validates d against c
MissingPaths(d, c) ==
    {e.loc : e \in {x \in ValidateModel(d, c, <<>>).errs : x.type = "missing"}}

\* BaseModel.model_dump(): the instance as nested dicts and lists
RECURSIVE model_dump(_)
model_dump(v) ==
    CASE v.t = "model" -> PyDict([f \in DOMAIN v.o |-> model_dump(v.o[f])])
      [] v.t = "list" -> PyList([n \in 1..Len(v.l) |-> model_dump(v.l[n])])
      [] OTHER -> v

\* hasattr(result, 'model_dump')
HasModelDump(v) == v.t = "model"

\* ------------------------------------------------ reconciliation (parse)

\* An event of a dispatch: what was called, and for which handler
Ev(e, name) == [e |-> e, name |-> name]

\* The `defaults` mapping each parse_*_output function passes to
\* parse_with_fallback.
defaults_analyze_error ==
    PyDict([analysis_result |-> PyDict([root_cause |-> Lit("default_root_cause"),
                                        error_category |-> Lit("default_error_category"),
                                        confidence_level |-> Lit("default_confidence_level"),
                                        impact_assessment |-> Lit("default_impact_assessment")]),
            recommended_fixes |-> PyList(<<>>),
            developer_message |-> PyDict([summary |-> Lit("default_summary"),
                                          detailed_explanation |-> Lit("default_detailed_explanation"),
                                          next_steps |-> PyList(<<>>),
                                          related_documentation |-> PyList(<<>>),
                                          prevention_tips |-> PyList(<<>>)]),
            urgency_level |-> Lit("how_default")])
defaults_generate_pr_comment ==
    PyDict([pr_comment |-> Lit("formatted_default"),
            comment_metadata |-> PyDict([comment_type |-> Lit("default_comment_type"),
                                         tags |-> PyList(<<>>),
                                         urgency |-> Lit("default_urgency")])])
defaults_suggest_workflow_improvements ==
    PyDict([workflow_improvements |-> PyList(<<>>),
            prevention_strategies |-> PyList(<<>>),
            monitoring_recommendations |-> PyList(<<>>)])
defaults_collect_errors ==
    PyDict([error_summary |-> PyDict([primary_error |-> Lit("default_primary_error"),
                                      error_type |-> Lit("default_error_type"),
                                      severity |-> Lit("default_severity"),
                                      affected_files |-> PyList(<<>>),
                                      stack_trace |-> Lit("default_stack_trace"),
                                      error_context |-> Lit("default_error_context"),
                                      suggested_keywords |-> PyList(<<>>)]),
            job_context |-> PyDict([job_name |-> Lit("default_job_name"),
                                    workflow_name |-> Lit("default_workflow_name"),
                                    repository |-> Lit("default_repository"),
                                    branch |-> Lit("default_branch"),
                                    commit_sha |-> Lit("default_commit_sha"),
                                    pr_number |-> PyInt(0),
                                    failed_step |-> Lit("default_failed_step")]),
            log_statistics |-> PyDict([total_lines |-> PyInt(0),
                                       error_lines |-> PyInt(0),
                                       warning_lines |-> PyInt(0),
                                       duration_estimate |-> Lit("default_duration_estimate")])])
defaults_extract_build_info ==
    PyDict([build_commands |-> PyList(<<>>),
            dependencies |-> PyList(<<>>),
            build_artifacts |-> PyList(<<>>),
            environment_info |-> PyDict([os |-> Lit("default_os"),
                                         node_version |-> Lit("default_node_version"),
                                         python_version |-> Lit("default_python_version"),
                                         java_version |-> Lit("default_java_version")])])
defaults_propose_remediation ==
    PyDict([proposed_diff |-> Lit("unified_default"),
            files_to_change |-> PyList(<<>>),
            rationale |-> Lit("explanation_default")])

\* A fallback that builds the record from the defaults whatever the response
FallBackAlways(direct, model_class, defaults) ==
    [out |-> Construct(model_class, defaults), ev |-> <<Ev("defaults", <<model_class>>)>>]

\* dacp.parse_with_fallback(response=, model_class=, **defaults), the library
\* call of every parse_*_output function: the response is validated against
\* model_class; a response that does not validate (or is no mapping) is
\* replaced by the record built from the fallback keyword arguments.  The
\* event "defaults" marks a record that was built from the defaults.
FallBack(direct, model_class, defaults) ==
    IF Returned(direct) THEN [out |-> direct, ev |-> <<>>]
    ELSE [out |-> Construct(model_class, defaults),
          ev |-> <<Ev("defaults", <<model_class>>)>>]
parse_with_fallback(response, model_class, defaults) ==
    FallBack(Construct(model_class, response), model_class, defaults)

\* A parse function that lets the exception of parse_with_fallback pass as
\* it is
ReconciledUnconverted(r, model_class) ==
    [out |-> r.out, ev |-> <<Ev("parse_with_fallback", <<model_class>>)>> \o r.ev]

\* The body shared by the six parse_*_output functions.
\*   - an instance of the output model is returned as it is;
\*   - a str is decoded by json.loads, a JSONDecodeError becoming ValueError;
\*   - the value is handed to parse_with_fallback with the defaults, any
\*     exception of which becomes ValueError.
Reconciled(r, model_class) ==
    [out |-> IF Raised(r.out)
             THEN Raise("ValueError",
                        <<"Error parsing response with DACP parser: ">> \o r.out.exc.msg)
             ELSE r.out,
     ev |-> <<Ev("parse_with_fallback", <<model_class>>)>> \o r.ev]
ParseLoaded(loaded, model_class, defaults) ==
    IF Raised(loaded)
    THEN [out |-> Raise("ValueError", <<"Failed to parse JSON response: ">> \o loaded.exc.msg),
          ev |-> <<>>]
    ELSE Reconciled(parse_with_fallback(loaded.v, model_class, defaults), model_class)
\* A parse function without the isinstance test: an instance goes to
\* parse_with_fallback like any other value
ParseOutputWithoutInstanceTest(response, model_class, defaults) ==
    IF IsStr(response)
    THEN [ParseLoaded(JsonLoads(response), model_class, defaults)
            EXCEPT !.ev = <<Ev("json.loads", <<model_class>>)>> \o @]
    ELSE ParseLoaded(Return(response), model_class, defaults)
ParseOutput(response, model_class, defaults) ==
    IF response.t = "model" /\ response.cls = model_class
    THEN [out |-> Return(response), ev |-> <<>>]
    ELSE IF IsStr(response)
    THEN [ParseLoaded(JsonLoads(response), model_class, defaults)
            EXCEPT !.ev = <<Ev("json.loads", <<model_class>>)>> \o @]
    ELSE ParseLoaded(Return(response), model_class, defaults)

parse_analyze_error_output(response) ==
    ParseOutput(response, "Analyze_ErrorOutput", defaults_analyze_error)
parse_generate_pr_comment_output(response) ==
    ParseOutput(response, "Generate_Pr_CommentOutput", defaults_generate_pr_comment)
parse_suggest_workflow_improvements_output(response) ==
    ParseOutput(response, "Suggest_Workflow_ImprovementsOutput",
                defaults_suggest_workflow_improvements)
parse_collect_errors_output(response) ==
    ParseOutput(response, "Collect_ErrorsOutput", defaults_collect_errors)
parse_extract_build_info_output(response) ==
    ParseOutput(response, "Extract_Build_InfoOutput", defaults_extract_build_info)
parse_propose_remediation_output(response) ==
    ParseOutput(response, "Propose_RemediationOutput", defaults_propose_remediation)

\* ------------------------------------------------------------- agents

AgentKinds == {"analyzer", "collector", "remediator"}

\* The task methods of each agent class: name (as pieces), the parameters the
\* method declares besides self, and the output model of its task function.
GithubActionsErrorAnalyzerAgent ==
    {[name |-> <<"analyze", "_", "error">>,
      params |-> {"error_summary", "job_context", "log_statistics", "additional_context"},
      output |-> "Analyze_ErrorOutput"],
     [name |-> <<"generate", "_", "pr", "_", "comment">>,
      params |-> {"analysis_result", "recommended_fixes", "developer_message", "pr_number",
                  "repository", "job_name", "workflow_name"},
      output |-> "Generate_Pr_CommentOutput"],
     [name |-> <<"suggest", "_", "workflow", "_", "improvements">>,
      params |-> {"error_analysis", "workflow_name", "repository", "recurring_patterns"},
      output |-> "Suggest_Workflow_ImprovementsOutput"]}
GithubActionsErrorCollectorAgent ==
    {[name |-> <<"collect", "_", "errors">>,
      params |-> {"job_name", "workflow_name", "raw_logs", "job_step", "repository",
                  "branch", "commit_sha", "pr_number"},
      output |-> "Collect_ErrorsOutput"],
     [name |-> <<"extract", "_", "build", "_", "info">>,
      params |-> {"raw_logs", "build_system"},
      output |-> "Extract_Build_InfoOutput"]}
GithubActionsErrorRemediatorAgent ==
    {[name |-> <<"propose", "_", "remediation">>,
      params |-> {"analysis_result", "raw_logs", "repository", "branch", "commit_sha"},
      output |-> "Propose_RemediationOutput"]}

AgentTasks(kind) ==
    CASE kind = "analyzer" -> GithubActionsErrorAnalyzerAgent
      [] kind = "collector" -> GithubActionsErrorCollectorAgent
      [] kind = "remediator" -> GithubActionsErrorRemediatorAgent

TaskNames(kind) == {h.name : h \in AgentTasks(kind)}
TaskNamed(kind, name) == CHOOSE h \in AgentTasks(kind) : h.name = name

\* self.model and self.config as __init__ sets them (the config by its
\* entries that differ between the agents)
AgentModel(kind) == IF kind = "collector" THEN Lit("gpt-3.5-turbo") ELSE Lit("gpt-4")
AgentConfig(kind) ==
    PyDict([log_file |-> PyStr(<<"./logs/github-actions-", kind, ".log">>),
            model |-> AgentModel(kind)])

\* The agent object after __init__(agent_id, orchestrator)
NewAgent(kind, agent_id) ==
    [kind |-> kind, agent_id |-> agent_id, model |-> AgentModel(kind),
     config |-> AgentConfig(kind)]

\* What getattr(self, name) finds on an agent object: a task method, another
\* method of the class, a data attribute set by __init__, or nothing.
AttrKind(kind, name) ==
    IF name \in TaskNames(kind) THEN "task"
    ELSE IF name = <<"handle", "_", "message">> THEN "handle_message"
    ELSE IF name = <<"setup", "_", "logging">> THEN "setup_logging"
    ELSE IF name = <<"__init__">> THEN "__init__"
    ELSE IF name \in {<<"config">>, <<"model">>, <<"agent", "_", "id">>} THEN "data"
    ELSE "absent"

\* hasattr(self, method_name)
HasAttr(kind, name) == AttrKind(kind, name) # "absent"

\* The parameters each method declares besides self
Declared(kind, name) ==
    CASE AttrKind(kind, name) = "task" -> TaskNamed(kind, name).params
      [] AttrKind(kind, name) = "handle_message" -> {"message"}
      [] AttrKind(kind, name) = "setup_logging" -> {}
      [] AttrKind(kind, name) = "__init__" -> {"agent_id", "orchestrator"}
      [] OTHER -> {}

\* A binding that lets keywords the method does not declare pass, as that of
\* a method with a **kwargs parameter would
BindDeclaredOnly(kind, name, method_params) ==
    IF AttrKind(kind, name) = "data"
    THEN <<"object is not callable">>
    ELSE IF Declared(kind, name) \ (DOMAIN method_params.o) # {}
    THEN <<"missing required positional argument">>
    ELSE <<>>

\* method(**method_params): Python binds the keywords to the declared
\* parameters before the body runs; a keyword that is not declared, or a
\* declared parameter without a keyword, raises TypeError.  A data attribute
\* is not callable at all.
BindError(kind, name, method_params) ==
    IF AttrKind(kind, name) = "data"
    THEN <<"object is not callable">>
    ELSE IF (DOMAIN method_params.o) \ Declared(kind, name) # {}
    THEN <<"got an unexpected keyword argument">>
    ELSE IF Declared(kind, name) \ (DOMAIN method_params.o) # {}
    THEN <<"missing required positional argument">>
    ELSE <<>>

\* The error envelopes of handle_message
ErrorEnvelope(pieces) == PyDict([error |-> PyStr(pieces)])
MissingTask == ErrorEnvelope(<<"Missing required field: task">>)
UnknownTask(task) == ErrorEnvelope(<<"Unknown task: ">> \o task.s)
InvalidParameters(task, e) ==
    ErrorEnvelope(<<"Invalid parameters for task ">> \o task.s \o <<": ">> \o e.msg)
ExecutionError(task, e) ==
    ErrorEnvelope(<<"Error executing task ">> \o task.s \o <<": ">> \o e.msg)

\* A memory configuration that is enabled, as the one in self.config is
MemoryAppended == TRUE

\* The module-level task function up to its call of invoke_intelligence:
\* memory is disabled in every task function, the template is rendered with
\* the arguments and an empty memory_summary.
MemoryEnabled == FALSE
RenderPrompt(name, args, memory_summary) ==
    [template |-> name, input |-> args,
     memory_summary |-> IF MemoryEnabled THEN memory_summary ELSE PyStr(<<>>)]

\* The parse_*_output function each task function hands the raw response to
ParseFor(output, raw) ==
    CASE output = "Analyze_ErrorOutput" -> parse_analyze_error_output(raw)
      [] output = "Generate_Pr_CommentOutput" -> parse_generate_pr_comment_output(raw)
      [] output = "Suggest_Workflow_ImprovementsOutput" ->
            parse_suggest_workflow_improvements_output(raw)
      [] output = "Collect_ErrorsOutput" -> parse_collect_errors_output(raw)
      [] output = "Extract_Build_InfoOutput" -> parse_extract_build_info_output(raw)
      [] output = "Propose_RemediationOutput" -> parse_propose_remediation_output(raw)

\* ------------------------------------------------------ handle_message

\* What handle_message returns for the value its method returned: the
\* analyzer and the remediator return model_dump() of a model and any other
\* value as it is; the collector returns json.dumps of it, a str.
MethodResult(kind, result) ==
    IF kind = "collector"
    THEN Return(JsonText(IF HasModelDump(result) THEN model_dump(result) ELSE result))
    ELSE Return(IF HasModelDump(result) THEN model_dump(result) ELSE result)

\* The end of one handle_message frame (the try block from the value or the
\* exception of method(**method_params) on): a TypeError, wherever it was
\* raised, becomes the "Invalid parameters" envelope, any other Exception
\* the "Error executing task" envelope.
FrameReturn(kind, task, out) ==
    IF Returned(out) THEN MethodResult(kind, out.v)
    ELSE IF out.exc.type = "TypeError" THEN Return(InvalidParameters(task, out.exc))
    ELSE Return(ExecutionError(task, out.exc))

\* The frames of handle_message that are open, outermost first, each by the
\* task value it was called with, are closed innermost first.
RECURSIVE Unwind(_, _, _)
Unwind(kind, stack, out) ==
    IF stack = <<>> THEN out
    ELSE Unwind(kind, SubSeq(stack, 1, Len(stack) - 1),
                FrameReturn(kind, stack[Len(stack)], out))

\* The result of running handle_message up to the point where it returns,
\* raises, or is suspended in invoke_intelligence.
Done(out, agent, ev) == [k |-> "done", out |-> out, agent |-> agent, ev |-> ev]
Suspended(stack, handler, prompt, agent, ev) ==
    [k |-> "suspend", stack |-> stack, handler |-> handler, prompt |-> prompt,
     agent |-> agent, ev |-> ev]

\* An __init__ that turns the agent into one of another class, with other
\* task methods
ReinitAsAnotherClass(agent, args) ==
    [out |-> Return(PyNone),
     agent |-> NewAgent(IF agent.kind = "analyzer" THEN "collector" ELSE "analyzer",
                        args.o["agent_id"])]

\* __init__(self, agent_id, orchestrator), run again on the live agent:
\* agent_id is assigned before orchestrator.register_agent is called, which
\* raises AttributeError on a value that is no Orchestrator.
Reinit(agent, args) ==
    LET assigned == [agent EXCEPT !.agent_id = args.o["agent_id"]]
    IN  IF args.o["orchestrator"].t = "orchestrator"
        THEN [out |-> Return(PyNone), agent |-> NewAgent(agent.kind, args.o["agent_id"])]
        ELSE [out |-> Raise("AttributeError", <<"object has no attribute 'register_agent'">>),
              agent |-> assigned]

\* message.items(): a dict gives its items in the order its keys were
\* inserted, which is the caller's; two orders stand for all of them
KeyOrders == {"insertion", "reversed"}
RECURSIVE KeySeq(_)
KeySeq(keys) ==
    IF keys = {} THEN <<>>
    ELSE LET k == CHOOSE k \in keys : TRUE IN <<k>> \o KeySeq(keys \ {k})
Reverse(seq) == [n \in 1..Len(seq) |-> seq[Len(seq) + 1 - n]]
Items(d, order) ==
    LET keys == IF order = "insertion" THEN KeySeq(DOMAIN d.o) ELSE Reverse(KeySeq(DOMAIN d.o))
    IN  [n \in 1..Len(keys) |-> <<keys[n], d.o[keys[n]]>>]

\* A call that binds the n-th value to the n-th parameter, whatever its key
BindByPosition(kwargs) ==
    LET names == KeySeq({kwargs[n][1] : n \in 1..Len(kwargs)})
    IN  PyDict([k \in {kwargs[n][1] : n \in 1..Len(kwargs)} |->
                  kwargs[CHOOSE n \in 1..Len(kwargs) : names[n] = k][2]])

\* method(**method_params): each value is bound to the parameter its key
\* names, wherever the key stands in the request
BindKeywords(kwargs) ==
    PyDict([k \in {kwargs[n][1] : n \in 1..Len(kwargs)} |->
              kwargs[CHOOSE n \in 1..Len(kwargs) : kwargs[n][1] = k][2]])

\* A lookup that finds nothing any more once an earlier dispatch has
\* reassigned the agent's attributes
GetAttrUntilReassigned(agent, method_name) ==
    IF agent # NewAgent(agent.kind, PyStr(<<"example", "-", "agent", "-", "id">>))
    THEN "absent"
    ELSE AttrKind(agent.kind, method_name)

\* hasattr(self, method_name) and getattr(self, method_name) on the live
\* agent: what is found is decided by the agent's class; the attributes
\* __init__ assigns are the same three whenever it runs
GetAttr(agent, method_name) == AttrKind(agent.kind, method_name)

\* A guard that reports only an absent or None task as missing
TaskGuardNoneOnly(task) ==
    IF task = PyNone THEN "missing"
    ELSE IF ~IsStr(task) THEN "raise"
    ELSE "ok"

\* Lines `task = message.get("task")` to `method_name = task.replace(...)`:
\* a falsy task is reported missing; a truthy task that is no str has no
\* replace method, and the AttributeError is raised outside the try block.
TaskGuard(task) ==
    IF ~Truthy(task) THEN "missing"
    ELSE IF ~IsStr(task) THEN "raise"
    ELSE "ok"

RECURSIVE Begin(_, _, _, _)
Begin(agent, message, env, stack) ==
    IF ~IsDict(message)
    THEN Done(Raise("AttributeError", <<"object has no attribute 'get'">>), agent, <<>>)
    ELSE
    LET task == DictGet(message, "task")
        guard == TaskGuard(task)
    IN
    IF guard = "missing" THEN Done(Return(MissingTask), agent, <<>>)
    ELSE IF guard = "raise"
    THEN Done(Raise("AttributeError", <<"object has no attribute 'replace'">>), agent, <<>>)
    ELSE
    LET method_name == ReplaceHyphens(task.s)
        attr == GetAttr(agent, method_name)
        NotTask(item) == item[1] # "task"
        kwargs == SelectSeq(Items(message, env.order), NotTask)
        method_params == BindKeywords(kwargs)
        bindError == BindError(agent.kind, method_name, method_params)
        called == <<Ev("call", method_name)>>
    IN
    IF attr = "absent" THEN Done(Return(UnknownTask(task)), agent, <<>>)
    ELSE IF bindError # <<>>
    THEN Done(FrameReturn(agent.kind, task, Raise("TypeError", bindError)), agent, <<>>)
    ELSE
    CASE attr = "setup_logging" ->
            Done(FrameReturn(agent.kind, task, Return(PyNone)), agent, called)
      [] attr = "__init__" ->
            LET r == Reinit(agent, method_params)
            IN  Done(FrameReturn(agent.kind, task, r.out), r.agent, called)
      [] attr = "handle_message" ->
            LET inner == Begin(agent, method_params.o["message"], env, Append(stack, task))
            IN  IF inner.k = "done"
                THEN Done(FrameReturn(agent.kind, task, inner.out), inner.agent,
                          called \o inner.ev)
                ELSE [inner EXCEPT !.ev = called \o inner.ev]
      [] attr = "task" ->
            LET h == TaskNamed(agent.kind, method_name)
                prompt == RenderPrompt(method_name, method_params, env.memory)
                rendered == called \o <<Ev("render", method_name)>>
            IN  IF env.render # "ok"
                THEN Done(FrameReturn(agent.kind, task, Raise(env.render, <<"render failed">>)),
                          agent, rendered)
                ELSE Suspended(Append(stack, task), h, prompt, agent,
                               rendered \o <<Ev("invoke_intelligence", method_name)>>)

\* -------------------------------------------------------------- inputs

\* Lists of a conforming response hold MaxItems items; a request nests at
\* most MaxNest handle_message requests.
MaxItems == 1
MaxNest == 1

\* A response that conforms to the type ty: every field present
RECURSIVE Conforming(_)
Conforming(ty) ==
    CASE ty.k = "str" -> Lit("text")
      [] ty.k = "int" -> PyInt(3)
      [] ty.k = "list" -> PyList([n \in 1..MaxItems |-> Conforming(ty.e)])
      [] ty.k = "model" ->
            PyDict([f \in DOMAIN ModelFields(ty.c) |-> Conforming(ModelFields(ty.c)[f].ty)])

\* The paths of the fields of type ty, a list being entered at its first item
RECURSIVE FieldPaths(_)
FieldPaths(ty) ==
    CASE ty.k = "list" -> {<<"0">> \o p : p \in FieldPaths(ty.e)}
      [] ty.k = "model" ->
            UNION {{<<f>>} \cup {<<f>> \o p : p \in FieldPaths(ModelFields(ty.c)[f].ty)}
                   : f \in DOMAIN ModelFields(ty.c)}
      [] OTHER -> {}

\* The declaration of the field at a path of class c
RECURSIVE FieldAt(_, _)
FieldAt(ty, path) ==
    IF ty.k = "list" THEN FieldAt(ty.e, Tail(path))
    ELSE IF Len(path) = 1 THEN ModelFields(ty.c)[path[1]]
    ELSE FieldAt(ModelFields(ty.c)[path[1]].ty, Tail(path))

\* Whether a value has something at a path
RECURSIVE HasAt(_, _)
HasAt(v, path) ==
    IF path = <<>> THEN TRUE
    ELSE IF v.t = "list" THEN path[1] = "0" /\ Len(v.l) >= 1 /\ HasAt(v.l[1], Tail(path))
    ELSE IF v.t \in {"dict", "model"}
    THEN path[1] \in DOMAIN v.o /\ HasAt(v.o[path[1]], Tail(path))
    ELSE FALSE

\* The value at a path
RECURSIVE GetAt(_, _)
GetAt(v, path) ==
    IF path = <<>> THEN v
    ELSE IF v.t = "list" THEN GetAt(v.l[1], Tail(path))
    ELSE GetAt(v.o[path[1]], Tail(path))

\* v with the value at path replaced by x (the key added when absent)
RECURSIVE SetAt(_, _, _)
SetAt(v, path, x) ==
    IF path = <<>> THEN x
    ELSE IF v.t = "list"
    THEN PyList([n \in 1..Len(v.l) |-> IF n = 1 THEN SetAt(v.l[1], Tail(path), x) ELSE v.l[n]])
    ELSE PyDict([k \in (DOMAIN v.o) \cup {path[1]} |->
                   IF k = path[1]
                   THEN IF Len(path) = 1 THEN x ELSE SetAt(v.o[k], Tail(path), x)
                   ELSE v.o[k]])

\* v with the key at path removed
RECURSIVE DropAt(_, _)
DropAt(v, path) ==
    IF v.t = "list"
    THEN PyList([n \in 1..Len(v.l) |-> IF n = 1 THEN DropAt(v.l[1], Tail(path)) ELSE v.l[n]])
    ELSE IF Len(path) = 1
    THEN PyDict([k \in (DOMAIN v.o) \ {path[1]} |-> v.o[k]])
    ELSE PyDict([k \in DOMAIN v.o |->
                   IF k = path[1] THEN DropAt(v.o[k], Tail(path)) ELSE v.o[k]])

\* The paths of the objects of type ty: the response itself, its nested
\* objects and the first item of its lists of objects
ObjectPaths(ty) ==
    {<<>>}
    \cup {q \in FieldPaths(ty) : FieldAt(ty, q).ty.k = "model"}
    \cup {q \o <<"0">> : q \in {r \in FieldPaths(ty) :
                                  /\ FieldAt(ty, r).ty.k = "list"
                                  /\ FieldAt(ty, r).ty.e.k = "model"}}

\* Values a response may hold in place of the conforming one
OddValues ==
    {PyNone, PyInt(7), PyStr(<<"1", "2">>), Lit("12x"), PyList(<<>>), EmptyDict}

\* The mappings a collaborator may answer for output model c: the conforming
\* one, and that with one field omitted, one value replaced, or one key added
ResponseMappings(c) ==
    LET good == Conforming(TModel(c))
        paths == FieldPaths(TModel(c))
    IN  {good, EmptyDict}
        \cup {PyDict([k \in {f} |-> EmptyDict]) : f \in DOMAIN ModelFields(c)}
        \cup {DropAt(good, p) : p \in paths}
        \cup {SetAt(good, p, x) : p \in paths, x \in OddValues}
        \cup {SetAt(good, p \o <<"commentary">>, Lit("note")) : p \in ObjectPaths(TModel(c))}

\* Texts that are no JSON document, or none of a mapping
RawTexts ==
    {Lit("Sure, here is the analysis"), Lit("NaN"), Lit("Infinity"),
     PyStr(<<"-", "Infinity">>), PyStr(<<"4", "2">>), Lit("null"), PyStr(<<>>)}

\* An instance of class c, and a class that is not c
Instance(c) == ValidateModel(Conforming(TModel(c)), c, <<>>).v
OtherClass(c) ==
    IF c = "Propose_RemediationOutput" THEN "Generate_Pr_CommentOutput"
    ELSE "Propose_RemediationOutput"

\* What invoke_intelligence may return to a task function with output model c
RawResponses(c) ==
    ResponseMappings(c)
    \cup {JsonText(m) : m \in ResponseMappings(c)}
    \cup RawTexts
    \cup {JsonText(PyList(<<Conforming(TModel(c))>>)), PyList(<<>>), PyNone,
          Instance(c), Instance(OtherClass(c))}

\* The exceptions (subclasses of Exception) a collaborator may raise
CollaboratorErrors == {"TypeError", "RuntimeError", "TimeoutError"}

\* The values a request may hold under `task`
Hyphenate(pieces) == [n \in 1..Len(pieces) |-> IF pieces[n] = "_" THEN "-" ELSE pieces[n]]
AttributeNames ==
    UNION {TaskNames(k) : k \in AgentKinds}
    \cup {<<"handle", "_", "message">>, <<"setup", "_", "logging">>, <<"agent", "_", "id">>,
          <<"__init__">>, <<"config">>, <<"model">>, <<"no", "_", "such", "_", "task">>}
CaseVariants ==
    {<<"Analyze", "-", "Error">>, <<"ANALYZE", "_", "ERROR">>, <<"Collect", "-", "Errors">>,
     <<"Propose", "_", "Remediation">>, <<"Handle", "_", "Message">>}
TaskValues ==
    {PyNone, PyStr(<<>>), PyInt(0), PyInt(7), PyList(<<Lit("analyze_error")>>)}
    \cup {PyStr(n) : n \in AttributeNames}
    \cup {PyStr(Hyphenate(n)) : n \in AttributeNames}
    \cup {PyStr(<<"generate", "-", "pr", "_", "comment">>),
          PyStr(<<"extract", "_", "build", "-", "info">>)}
    \cup {PyStr(n) : n \in CaseVariants}

\* The other keys of a request: a handler's parameters exactly, with
\* memory_summary added, with one parameter left out, none at all, and the
\* parameters of __init__
ParamDict(keys) == PyDict([k \in keys |-> Lit(k)])
Orchestrator == [t |-> "orchestrator"]
ParamSets(kind) ==
    {EmptyDict}
    \cup {ParamDict(h.params) : h \in AgentTasks(kind)}
    \cup {ParamDict(h.params \cup {"memory_summary"}) : h \in AgentTasks(kind)}
    \cup UNION {{ParamDict(h.params \ {k}) : k \in h.params} : h \in AgentTasks(kind)}
    \cup {PyDict([agent_id |-> Lit("other-agent-id"), orchestrator |-> o]) :
            o \in {Orchestrator, Lit("v")}}

WithTask(params, task) == PyDict(params.o @@ ("task" :> task))

\* The requests: a task value with a set of other keys, and handle_message
\* requests that carry a request as their message, nested at most n deep
\* (the carried requests are a task with its parameters or without them,
\* setup_logging, a task that is no str, a message that is no mapping)
CarriedRequests(kind) ==
    {WithTask(ParamDict(h.params), PyStr(Hyphenate(h.name))) : h \in AgentTasks(kind)}
    \cup {WithTask(EmptyDict, PyStr(h.name)) : h \in AgentTasks(kind)}
    \cup {WithTask(EmptyDict, PyStr(<<"setup", "_", "logging">>)), WithTask(EmptyDict, PyInt(7)),
          WithTask(PyDict([agent_id |-> Lit("other-agent-id"), orchestrator |-> Orchestrator]),
                   PyStr(<<"__init__">>)),
          EmptyDict, Lit("v")}
RECURSIVE Carrying(_, _)
Carrying(kind, n) ==
    IF n = 0 THEN {}
    ELSE {WithTask(PyDict([message |-> m]), PyStr(task)) :
            m \in CarriedRequests(kind) \cup Carrying(kind, n - 1),
            task \in {<<"handle", "_", "message">>, <<"handle", "-", "message">>}}
Requests(kind, n) ==
    ParamSets(kind)
    \cup {WithTask(ps, task) : ps \in ParamSets(kind), task \in TaskValues}
    \cup Carrying(kind, n)

\* What the collaborators of a dispatch do besides answering: the template
\* renderer renders or raises, and get_memory, where the base class has it,
\* gives the memory summary
RenderOutcomes == {"ok", "TemplateNotFound", "TypeError"}
MemorySummaries == {PyStr(<<>>), Lit("remembered")}
Environments == [render : RenderOutcomes, memory : MemorySummaries, order : KeyOrders]

\* ----------------------------------------------------- the state machine

VARIABLES agent, pc, message, call, raw, parsed, result, trace, again, peer
vars == <<agent, pc, message, call, raw, parsed, result, trace, again, peer>>

Nothing == [k |-> "none"]

\* A second call of handle_message on the same agent object, from another
\* thread: where it is, its message, what it waits with, the collaborator's
\* answer, its result and its events
PeerIdle == [pc |-> "idle"]
ExampleAgentId == PyStr(<<"example", "-", "agent", "-", "id">>)

Init ==
    /\ agent \in {NewAgent(kind, ExampleAgentId) : kind \in AgentKinds}
    /\ pc = "idle"
    /\ message = PyNone
    /\ call = Nothing
    /\ raw = Nothing
    /\ parsed = Nothing
    /\ result = Nothing
    /\ trace = <<>>
    /\ again = Nothing
    /\ peer = PeerIdle

\* handle_message(message) is called and runs until it returns, raises, or
\* waits for invoke_intelligence
Dispatch(m, env) ==
    /\ pc = "idle"
    /\ LET r == Begin(agent, m, env, <<>>)
       IN  /\ agent' = r.agent
           /\ trace' = r.ev
           /\ IF r.k = "done"
              THEN /\ pc' = "done"
                   /\ result' = r.out
                   /\ call' = Nothing
              ELSE /\ pc' = "awaiting"
                   /\ result' = Nothing
                   /\ call' = [stack |-> r.stack, handler |-> r.handler,
                               prompt |-> r.prompt, memory_summary |-> env.memory]
    /\ message' = m
    /\ raw' = Nothing
    /\ parsed' = Nothing
    /\ again' = Nothing
    /\ UNCHANGED peer

\* The task function returns what its parse_*_output function gave
Parsed(p) ==
    /\ parsed' = p.out
    /\ trace' = trace \o p.ev
    /\ result' = Unwind(agent.kind, call.stack, p.out)

\* invoke_intelligence returns response: the task function parses it and
\* every open frame of handle_message returns
CollaboratorReturns(response) ==
    /\ pc = "awaiting"
    /\ Parsed(ParseFor(call.handler.output, response))
    /\ raw' = Return(response)
    /\ pc' = "done"
    /\ UNCHANGED <<agent, message, call, again, peer>>

\* A task function that calls invoke_intelligence once more when it raised
CollaboratorRaisesRetried(type) ==
    /\ pc = "awaiting"
    /\ Len(trace) < 8
    /\ raw' = Raise(type, <<"upstream failure">>)
    /\ trace' = Append(trace, Ev("invoke_intelligence", call.handler.name))
    /\ UNCHANGED <<agent, pc, message, call, parsed, result, again, peer>>

\* invoke_intelligence raises: the exception leaves the task function
CollaboratorRaises(type) ==
    /\ pc = "awaiting"
    /\ raw' = Raise(type, <<"upstream failure">>)
    /\ result' = Unwind(agent.kind, call.stack, raw')
    /\ parsed' = Nothing
    /\ pc' = "done"
    /\ UNCHANGED <<agent, message, call, trace, again, peer>>

\* The caller has the value (or the exception) of handle_message; the agent
\* is ready for the next request
CallerResumes ==
    /\ pc = "done"
    /\ pc' = "idle"
    /\ message' = PyNone
    /\ call' = Nothing
    /\ raw' = Nothing
    /\ parsed' = Nothing
    /\ result' = Nothing
    /\ trace' = <<>>
    /\ again' = Nothing
    /\ UNCHANGED <<agent, peer>>

\* The caller serialises the record it was given (json.dumps of model_dump)
\* and hands the text to the same parse function once more
ReconcileAgain ==
    /\ pc = "done"
    /\ parsed # Nothing
    /\ Returned(parsed)
    /\ again = Nothing
    /\ again' = ParseFor(call.handler.output, JsonText(model_dump(parsed.v))).out
    /\ UNCHANGED <<agent, pc, message, call, raw, parsed, result, trace, peer>>

Next ==
    \/ CallerResumes
    \/ ReconcileAgain
    \/ /\ pc = "idle"
       /\ \E m \in Requests(agent.kind, MaxNest), env \in Environments : Dispatch(m, env)
    \/ /\ pc = "awaiting"
       /\ \E response \in RawResponses(call.handler.output) : CollaboratorReturns(response)
    \/ /\ pc = "awaiting"
       /\ \E type \in CollaboratorErrors : CollaboratorRaises(type)

Spec == Init /\ [][Next]_vars

\* ------------------------------------------- two calls on one agent object

\* The requests and answers of two concurrent calls: a task with its
\* parameters, setup_logging, and __init__ with either orchestrator; a
\* conforming answer, an empty one, and text
ConcurrentRequests(kind) ==
    {WithTask(ParamDict(h.params), PyStr(Hyphenate(h.name))) : h \in AgentTasks(kind)}
    \cup {WithTask(EmptyDict, PyStr(<<"setup", "_", "logging">>))}
    \cup {WithTask(PyDict([agent_id |-> Lit(id), orchestrator |-> o]), PyStr(<<"__init__">>)) :
            id \in {"first-caller", "second-caller"}, o \in {Orchestrator, Lit("v")}}
ConcurrentResponses(c) ==
    {Conforming(TModel(c)), EmptyDict, JsonText(Conforming(TModel(c))),
     Lit("Sure, here is the analysis")}
QuietEnvironment == [render |-> "ok", memory |-> PyStr(<<>>), order |-> "insertion"]

\* The second call runs handle_message until it returns, raises or waits
PeerBegun(m, r) ==
    IF r.k = "done"
    THEN [pc |-> "done", message |-> m, call |-> Nothing, raw |-> Nothing,
          result |-> r.out, trace |-> r.ev]
    ELSE [pc |-> "awaiting", message |-> m,
          call |-> [stack |-> r.stack, handler |-> r.handler], raw |-> Nothing,
          result |-> Nothing, trace |-> r.ev]
PeerStep(r) == r.agent
PeerDispatch(m) ==
    /\ peer.pc = "idle"
    /\ peer' = PeerBegun(m, Begin(agent, m, QuietEnvironment, <<>>))
    /\ agent' = PeerStep(Begin(agent, m, QuietEnvironment, <<>>))
    /\ UNCHANGED <<pc, message, call, raw, parsed, result, trace, again>>

\* invoke_intelligence returns to the second call, or raises in it
PeerParsed(p, response) ==
    [peer EXCEPT !.pc = "done", !.raw = Return(response),
                 !.result = Unwind(agent.kind, peer.call.stack, p.out),
                 !.trace = @ \o p.ev]
PeerCollaboratorReturns(response) ==
    /\ peer.pc = "awaiting"
    /\ peer' = PeerParsed(ParseFor(peer.call.handler.output, response), response)
    /\ UNCHANGED <<agent, pc, message, call, raw, parsed, result, trace, again>>
PeerCollaboratorRaises(type) ==
    /\ peer.pc = "awaiting"
    /\ peer' = [peer EXCEPT !.pc = "done", !.raw = Raise(type, <<"upstream failure">>),
                            !.result = Unwind(agent.kind, peer.call.stack,
                                              Raise(type, <<"upstream failure">>))]
    /\ UNCHANGED <<agent, pc, message, call, raw, parsed, result, trace, again>>

NextConcurrent ==
    \/ /\ pc = "idle"
       /\ \E m \in ConcurrentRequests(agent.kind) : Dispatch(m, QuietEnvironment)
    \/ /\ pc = "awaiting"
       /\ \E response \in ConcurrentResponses(call.handler.output) : CollaboratorReturns(response)
    \/ /\ pc = "awaiting"
       /\ \E type \in CollaboratorErrors : CollaboratorRaises(type)
    \/ /\ peer.pc = "idle"
       /\ \E m \in ConcurrentRequests(agent.kind) : PeerDispatch(m)
    \/ /\ peer.pc = "awaiting"
       /\ \E response \in ConcurrentResponses(peer.call.handler.output) :
              PeerCollaboratorReturns(response)
    \/ /\ peer.pc = "awaiting"
       /\ \E type \in CollaboratorErrors : PeerCollaboratorRaises(type)

SpecConcurrent == Init /\ [][NextConcurrent]_vars

\* ------------------------------------------ the library call that raises

\* parse_with_fallback is a library call inside a try block: besides
\* returning a record it may raise, for a response that reached it (a
\* mapping, the JSON text of one, None), an exception of any type
LibraryErrors == {"ValidationError", "KeyError", "TypeError"}
LibraryResponses(c) ==
    {Conforming(TModel(c)), EmptyDict, JsonText(Conforming(TModel(c))), PyNone}
Faulted(response, model_class, type) ==
    LET r == Reconciled([out |-> Raise(type, <<"library failure">>), ev |-> <<>>], model_class)
    IN  IF IsStr(response)
        THEN [r EXCEPT !.ev = <<Ev("json.loads", <<model_class>>)>> \o @]
        ELSE r

\* invoke_intelligence returns response and parse_with_fallback raises
LibraryRaises(response, type) ==
    /\ pc = "awaiting"
    /\ Parsed(Faulted(response, call.handler.output, type))
    /\ raw' = Return(response)
    /\ pc' = "done"
    /\ UNCHANGED <<agent, message, call, again, peer>>

NextLibraryRaises ==
    \/ Next
    \/ /\ pc = "awaiting"
       /\ \E response \in LibraryResponses(call.handler.output), type \in LibraryErrors :
              LibraryRaises(response, type)

SpecLibraryRaises == Init /\ [][NextLibraryRaises]_vars

\* ------------------------------------------------------------ properties

\* What a dispatch shows to its caller
TopTask == DictGet(message, "task")
TopParams == DictWithout(message, "task")
TaskIsId == pc # "idle" /\ IsStr(TopTask) /\ Truthy(TopTask)
IsErrorMapping(v) == IsDict(v) /\ DOMAIN v.o = {"error"} /\ IsStr(v.o["error"])
IsSuccessRecord(v) == IsDict(v) /\ "error" \notin DOMAIN v.o
ErrorHead(v) == v.o["error"].s[1]
IsInvalidParameters(v) == IsErrorMapping(v) /\ ErrorHead(v) = "Invalid parameters for task "
Happened(e) == \E i \in 1..Len(trace) : trace[i].e = e
SameUpToHyphens(a, b) == Hyphenate(a) = Hyphenate(b)
Callables == {"task", "handle_message", "setup_logging", "__init__"}

\* C1: whatever mapping handle_message is given, it returns a value: no
\* exception leaves handle_message.
C1_NoExceptionEscapes == pc = "done" => Returned(result)

\* C2: a task id that, with its hyphens replaced, is not one of the agent's
\* task handlers gets the UnknownTask envelope and nothing is invoked.
C2_UnregisteredIsUnknownTask ==
    (TaskIsId /\ ReplaceHyphens(TopTask.s) \notin TaskNames(agent.kind))
        => (pc = "done" /\ result = Return(UnknownTask(TopTask)) /\ trace = <<>>)

\* C3: when the keys of the request besides task are not exactly the
\* parameters the resolved method declares, the request gets the
\* InvalidParameters envelope and the method is not entered: nothing is
\* called, no prompt is rendered, invoke_intelligence is not reached.
C3_MismatchNeverEnters ==
    (TaskIsId /\ AttrKind(agent.kind, ReplaceHyphens(TopTask.s)) \in Callables
              /\ DOMAIN TopParams.o # Declared(agent.kind, ReplaceHyphens(TopTask.s)))
        => (pc = "done" /\ Returned(result) /\ IsInvalidParameters(result.v) /\ trace = <<>>)

\* C3 happens: analyze-error with memory_summary besides its parameters
C3_Witness ==
    /\ pc = "done"
    /\ message = WithTask(ParamDict(TaskNamed("analyzer", <<"analyze", "_", "error">>).params
                                    \cup {"memory_summary"}),
                          PyStr(<<"analyze", "-", "error">>))
    /\ Returned(result) /\ IsInvalidParameters(result.v)

\* C4: when a task handler's request gets the InvalidParameters envelope, the
\* handler did not run: an error raised after the handler was entered is not
\* reported as InvalidParameters.
C4_InvalidParametersMeansNotRun ==
    (pc = "done" /\ TaskIsId /\ AttrKind(agent.kind, ReplaceHyphens(TopTask.s)) = "task"
                 /\ Returned(result) /\ IsInvalidParameters(result.v))
        => trace = <<>>

\* C5: every value handle_message returns is either a success record, a
\* mapping without the key error, or a failure mapping whose only key is
\* error, with a str under it.
C5_ExactlyOneShape ==
    (pc = "done" /\ Returned(result)) => (IsSuccessRecord(result.v) \/ IsErrorMapping(result.v))

\* C6: when a task handler's output was reconciled, handle_message returns the
\* record as a mapping whose keys are the fields of the handler's output model.
C6_SuccessIsRecordMapping ==
    (pc = "done" /\ TaskIsId /\ AttrKind(agent.kind, ReplaceHyphens(TopTask.s)) = "task"
                 /\ parsed # Nothing /\ Returned(parsed))
        => /\ Returned(result) /\ IsDict(result.v)
           /\ DOMAIN result.v.o = DOMAIN ModelFields(call.handler.output)

\* C7: the method is found by the task id with each hyphen replaced by an
\* underscore, compared exactly: a spelling of a task handler's name in
\* hyphens or underscores calls that handler, and an id that differs from
\* every attribute's name otherwise (in case, say) gets UnknownTask.
C7_ResolvesByNormalisedId ==
    TaskIsId =>
        /\ \A n \in TaskNames(agent.kind) :
              (SameUpToHyphens(TopTask.s, n) /\ DOMAIN TopParams.o = TaskNamed(agent.kind, n).params)
                  => (trace # <<>> /\ trace[1] = Ev("call", n))
        /\ (\A n \in AttributeNames : ~SameUpToHyphens(TopTask.s, n))
              => (pc = "done" /\ result = Return(UnknownTask(TopTask)) /\ trace = <<>>)

\* C7 happens: analyze-error has reached the body of analyze_error
C7_Witness ==
    /\ pc = "awaiting"
    /\ TopTask = PyStr(<<"analyze", "-", "error">>)
    /\ call.handler.name = <<"analyze", "_", "error">>

\* C8: when the text invoke_intelligence returned is no JSON document, the
\* parse function raises ValueError 'Failed to parse JSON response' and
\* parse_with_fallback is not called.
C8_NonJsonTextFails ==
    (pc = "done" /\ raw # Nothing /\ Returned(raw) /\ IsStr(raw.v) /\ ~StrictJson(raw.v))
        => /\ Raised(parsed) /\ parsed.exc.type = "ValueError"
           /\ parsed.exc.msg[1] = "Failed to parse JSON response: "
           /\ ~Happened("parse_with_fallback")

\* C9: when the mapping invoke_intelligence returned omits a field that its
\* model requires, at any depth, the parse function raises and returns no
\* record.
C9_OmittedRequiredFieldFails ==
    (pc = "done" /\ raw # Nothing /\ Returned(raw) /\ IsDict(raw.v)
                 /\ MissingPaths(raw.v, call.handler.output) # {})
        => Raised(parsed)

\* The defaults mapping of the parse function of output model c, the
\* required fields of c, and whether a record holds in a required field a
\* value of the defaults mapping that the response did not give
DefaultsOf(c) ==
    CASE c = "Analyze_ErrorOutput" -> defaults_analyze_error
      [] c = "Generate_Pr_CommentOutput" -> defaults_generate_pr_comment
      [] c = "Suggest_Workflow_ImprovementsOutput" -> defaults_suggest_workflow_improvements
      [] c = "Collect_ErrorsOutput" -> defaults_collect_errors
      [] c = "Extract_Build_InfoOutput" -> defaults_extract_build_info
      [] c = "Propose_RemediationOutput" -> defaults_propose_remediation
RequiredPaths(c) == {p \in FieldPaths(TModel(c)) : FieldAt(TModel(c), p).required}
Loaded(v) == IF IsJsonText(v) THEN v.json ELSE v
HeldFromDefaults(record, response, c) ==
    \E p \in RequiredPaths(c) :
        /\ HasAt(DefaultsOf(c), p) /\ HasAt(record, p)
        /\ GetAt(record, p) = GetAt(DefaultsOf(c), p)
        /\ ~(HasAt(response, p) /\ GetAt(response, p) = GetAt(record, p))

\* C10: parse_analyze_error_output of {"analysis_result": {}} raises, and no
\* record a parse function returns holds in a required field a value that
\* came from its defaults mapping and not from the response.
C10_RequiredNeverFromDefaults ==
    (pc = "done" /\ parsed # Nothing /\ Returned(raw))
        => /\ (/\ call.handler.output = "Analyze_ErrorOutput"
               /\ raw.v = PyDict([analysis_result |-> EmptyDict]))
                  => Raised(parsed)
           /\ Returned(parsed)
                  => ~HeldFromDefaults(model_dump(parsed.v), Loaded(raw.v), call.handler.output)

\* The fields a class declares Optional[...] = None, the fields that hold
\* plain values, and the responses that conform to the class: every field
\* present, one optional field omitted, or one list empty
OutputModels == UNION {{h.output : h \in AgentTasks(kind)} : kind \in AgentKinds}
OptionalPathsOf ==
    [c \in OutputModels |-> {p \in FieldPaths(TModel(c)) : ~FieldAt(TModel(c), p).required}]
OptionalPaths(c) == OptionalPathsOf[c]
HoldsValues(ty) == ty.k \in {"str", "int"} \/ (ty.k = "list" /\ ty.e.k \in {"str", "int"})
LeafPathsOf ==
    [c \in OutputModels |-> {p \in FieldPaths(TModel(c)) : HoldsValues(FieldAt(TModel(c), p).ty)}]
LeafPaths(c) == LeafPathsOf[c]
ListPaths(c) == {p \in FieldPaths(TModel(c)) : FieldAt(TModel(c), p).ty.k = "list"}
ConformingResponsesOf ==
    [c \in OutputModels |->
        {Conforming(TModel(c))}
        \cup {DropAt(Conforming(TModel(c)), p) : p \in OptionalPaths(c)}
        \cup {SetAt(Conforming(TModel(c)), p, PyList(<<>>)) : p \in ListPaths(c)}]
ConformingResponses(c) == ConformingResponsesOf[c]
\* The conforming response of a class with one optional field omitted, by
\* the path of the field
OmittedAt == [c \in OutputModels |-> [p \in OptionalPaths(c) |-> DropAt(Conforming(TModel(c)), p)]]
AnswerIsDocument == pc = "done" /\ raw # Nothing /\ Returned(raw) /\ (IsDict(raw.v) \/ IsJsonText(raw.v))

\* C11: when the response conforms but for one omitted optional field, the
\* parse function returns a record in which that field has its declared
\* default, None.
OmittedOptionalIsNone(c, response, out) ==
    \A p \in OptionalPaths(c) :
        response = OmittedAt[c][p]
            => /\ Returned(out)
               /\ HasAt(out.v, p)
               /\ GetAt(out.v, p) = PyNone
KeepsValuesOf(c, response, record, dumped) ==
    \A p \in LeafPaths(c) :
        HasAt(response, p) => (HasAt(record, p) /\ GetAt(dumped, p) = GetAt(response, p))
KeepsEveryValue(c, response, out) ==
    response \in ConformingResponses(c)
        => (Returned(out) /\ KeepsValuesOf(c, response, out.v, model_dump(out.v)))
C12_RoundTrip ==
    AnswerIsDocument => KeepsEveryValue(call.handler.output, Loaded(raw.v), parsed)

\* C12 happens: propose_remediation answered with the JSON text of a
\* conforming mapping
C12_Witness ==
    /\ AnswerIsDocument
    /\ raw.v = JsonText(Conforming(TModel("Propose_RemediationOutput")))
    /\ Returned(parsed)
    /\ model_dump(parsed.v) = Conforming(TModel("Propose_RemediationOutput"))

\* C13: when a parse function returned a record, the JSON text of that record
\* given to the same parse function returns a record equal to the first.
C13_Idempotent == again # Nothing => again = parsed

\* C13 happens: the record of a response that omits an optional field was
\* reconciled again
C13_Witness ==
    /\ again # Nothing
    /\ Returned(again)
    /\ IsDict(raw.v)
    /\ MissingPaths(raw.v, call.handler.output) = {}
    /\ \E p \in OptionalPaths(call.handler.output) : ~HasAt(raw.v, p)

\* Whether a value holds, at every depth, only keys its type declares
RECURSIVE OnlyDeclared(_, _)
OnlyDeclared(v, ty) ==
    CASE ty.k = "model" /\ v.t \in {"dict", "model"} ->
            /\ DOMAIN v.o \subseteq DOMAIN ModelFields(ty.c)
            /\ \A f \in DOMAIN v.o : OnlyDeclared(v.o[f], ModelFields(ty.c)[f].ty)
      [] ty.k = "list" /\ v.t = "list" ->
            \A n \in 1..Len(v.l) : OnlyDeclared(v.l[n], ty.e)
      [] OTHER -> v.t \notin {"dict", "model"}
WithCommentaryOf ==
    [c \in OutputModels |->
        {SetAt(Conforming(TModel(c)), p \o <<"commentary">>, Lit("note")) :
            p \in ObjectPaths(TModel(c))}]
WithCommentary(c) == WithCommentaryOf[c]

\* C14: a record a parse function returns, and the success value
\* handle_message builds from it, hold only fields the output model declares;
\* a key of the response that the model does not declare, at any depth, is
\* dropped and the other values are kept.
DropsUndeclared(c, response, out) ==
    /\ Returned(out) => OnlyDeclared(out.v, TModel(c))
    /\ response \in WithCommentary(c)
          => (Returned(out) /\ model_dump(out.v) = Conforming(TModel(c)))
C14_OnlyDeclaredFields ==
    (pc = "done" /\ parsed # Nothing /\ Returned(raw))
        => /\ DropsUndeclared(call.handler.output, Loaded(raw.v), parsed)
           /\ (Returned(parsed) /\ Len(call.stack) = 1)
                 => OnlyDeclared(Loaded(result.v), TModel(call.handler.output))

\* C14 happens: analyze_error answered with a commentary key inside
\* analysis_result
C14_Witness ==
    /\ pc = "done" /\ parsed # Nothing /\ Returned(raw)
    /\ raw.v = SetAt(Conforming(TModel("Analyze_ErrorOutput")),
                     <<"analysis_result", "commentary">>, Lit("note"))
    /\ Len(call.stack) = 1
    /\ result = Return(Conforming(TModel("Analyze_ErrorOutput")))

\* The integer fields of a class
IntPaths(c) == {p \in FieldPaths(TModel(c)) : FieldAt(TModel(c), p).ty.k = "int"}

\* C15: an integer field given as a numeral in a str is coerced to the
\* integer; given as a str that is no numeral it is treated as absent: an
\* optional field takes its default None and the other values are kept, a
\* required field makes the parse function fail.
CoercesOrTreatsAsAbsent(c, response, out) ==
    \A p \in IntPaths(c) :
        /\ response = SetAt(Conforming(TModel(c)), p, PyStr(<<"1", "2">>))
              => (Returned(out) /\ GetAt(out.v, p) = PyInt(12))
        /\ response = SetAt(Conforming(TModel(c)), p, Lit("12x"))
              => IF FieldAt(TModel(c), p).required
                 THEN Raised(out)
                 ELSE /\ Returned(out)
                      /\ model_dump(out.v) = SetAt(Conforming(TModel(c)), p, PyNone)
C15_IntegerCoercion ==
    AnswerIsDocument => CoercesOrTreatsAsAbsent(call.handler.output, Loaded(raw.v), parsed)

\* C16: a record for which defaults were substituted is returned together
\* with the list of its degradations, so that it can be told from a record
\* for which none were: what the parse function returned for this response
\* is not what it returns, without using any default, for another response.
UsedDefaults(p) == \E i \in 1..Len(p.ev) : p.ev[i].e = "defaults"
SameWithoutDefaults(c, out) ==
    \E response \in {model_dump(out.v)} :
        /\ ~UsedDefaults(ParseFor(c, response))
        /\ ParseFor(c, response).out = out
C16_DegradationsReturned ==
    (pc = "done" /\ parsed # Nothing /\ Returned(parsed) /\ Happened("defaults"))
        => ~SameWithoutDefaults(call.handler.output, parsed)

\* How often an event happened in the dispatch, and where first
Count(e) == Cardinality({i \in 1..Len(trace) : trace[i].e = e})
Reconciling == {"json.loads", "parse_with_fallback", "defaults"}

\* C17: in one dispatch invoke_intelligence is called at most once and the
\* parse function runs only after it returned; when it raised, no parse
\* function ran and handle_message returns an error envelope; when the parse
\* function raised, invoke_intelligence was not called again.
C17_CollaboratorCalledOnce ==
    /\ Count("invoke_intelligence") <= 1
    /\ (parsed # Nothing \/ \E e \in Reconciling : Happened(e))
          => (raw # Nothing /\ Returned(raw) /\ Count("invoke_intelligence") = 1)
    /\ (pc = "done" /\ raw # Nothing /\ Raised(raw))
          => /\ parsed = Nothing
             /\ Returned(result)
             /\ Len(call.stack) = 1 => IsErrorMapping(result.v)
    /\ (pc = "done" /\ parsed # Nothing /\ Raised(parsed))
          => (Count("invoke_intelligence") = 1 /\ Returned(result))

\* C17 happens: invoke_intelligence raised in a dispatch of a task
C17_Witness ==
    /\ pc = "done" /\ raw # Nothing /\ Raised(raw)
    /\ Len(call.stack) = 1
    /\ Count("invoke_intelligence") = 1
    /\ IsErrorMapping(result.v)

C19_AgentUnchanged == [][agent' = agent]_vars

\* What a call returns when it runs alone on the agent as constructed, with
\* the same request and the same answer of invoke_intelligence
AloneFrom(kind, r, answer) ==
    IF r.k = "done" THEN r.out
    ELSE IF Returned(answer)
    THEN Unwind(kind, r.stack, ParseFor(r.handler.output, answer.v).out)
    ELSE Unwind(kind, r.stack, answer)
Alone(kind, m, answer) ==
    AloneFrom(kind, Begin(NewAgent(kind, ExampleAgentId), m, QuietEnvironment, <<>>), answer)

\* Whether a call assigned the agent's attributes (it ran __init__)
AssignsAgent(events) == \E i \in 1..Len(events) : events[i] = Ev("call", <<"__init__">>)

\* C20: when two calls of handle_message on one agent are interleaved, each
\* returns what it returns alone with the same request and the same answer,
\* and neither assigns an attribute of the agent that the other assigns.
C20_CallsDoNotInterfere ==
    (pc = "done" /\ peer.pc = "done")
        => /\ result = Alone(agent.kind, message, raw)
           /\ peer.result = Alone(agent.kind, peer.message, peer.raw)
           /\ ~(AssignsAgent(trace) /\ AssignsAgent(peer.trace))

\* The request that names the method which ran: the request itself, or the
\* one a handle_message request carries
RECURSIVE Carried(_)
Carried(m) ==
    IF /\ IsDict(m) /\ DOMAIN m.o = {"task", "message"} /\ IsStr(m.o["task"])
       /\ ReplaceHyphens(m.o["task"].s) = <<"handle", "_", "message">>
    THEN Carried(m.o["message"])
    ELSE m

C22_MissingTask ==
    (pc # "idle" /\ IsDict(message) /\ ~Truthy(TopTask))
        => /\ pc = "done" /\ result = Return(MissingTask)
           /\ trace = <<>> /\ call = Nothing

\* C22 happens: a request with the parameters of a handler and 0 or the
\* empty str as its task was answered
C22_Witness ==
    /\ pc = "done" /\ result = Return(MissingTask)
    /\ TopTask \in {PyInt(0), PyStr(<<>>)}
    /\ DOMAIN TopParams.o \in {h.params : h \in AgentTasks(agent.kind)}

\* C23: the checks come in a fixed order.  A request without a task is
\* reported as missing task whatever its other keys; a task id that names no
\* task handler is reported as UnknownTask whatever its other keys, never as
\* InvalidParameters; a task handler whose parameters do not bind is
\* reported as InvalidParameters and is not run.
C23_ChecksInOrder ==
    (pc # "idle" /\ IsDict(message)) =>
        /\ ~Truthy(TopTask) => result = Return(MissingTask)
        /\ (TaskIsId /\ ReplaceHyphens(TopTask.s) \notin TaskNames(agent.kind))
              => (pc = "done" /\ result = Return(UnknownTask(TopTask)))
        /\ (TaskIsId /\ ReplaceHyphens(TopTask.s) \in TaskNames(agent.kind)
                     /\ DOMAIN TopParams.o # Declared(agent.kind, ReplaceHyphens(TopTask.s)))
              => (pc = "done" /\ Returned(result) /\ IsInvalidParameters(result.v)
                  /\ trace = <<>>)

\* The render outcomes a finished dispatch may have met: a dispatch that
\* reached invoke_intelligence had its prompt rendered, one that did not
\* either failed to render it or never came to render
Rendering == IF call # Nothing THEN {"ok"} ELSE RenderOutcomes \ {"ok"}

C26_InstancePassesThrough ==
    (pc = "done" /\ raw # Nothing /\ Returned(raw) /\ raw.v.t = "model"
                 /\ raw.v.cls = call.handler.output)
        => /\ parsed = Return(raw.v)
           /\ \A e \in Reconciling : ~Happened(e)

\* C26 happens: analyze_error was answered with an Analyze_ErrorOutput and
\* handle_message returned its model_dump
C26_Witness ==
    /\ pc = "done" /\ raw = Return(Instance("Analyze_ErrorOutput"))
    /\ parsed = raw
    /\ Len(call.stack) = 1
    /\ result = Return(model_dump(Instance("Analyze_ErrorOutput")))

\* C27: the prompt a task function renders, and with it the call of
\* invoke_intelligence, is decided by the handler and the request's
\* parameters: whatever memory summary the agent method was given, the
\* template gets the empty str as memory_summary.
C27_MemoryNeverReachesModel ==
    call # Nothing =>
        /\ call.prompt.memory_summary = PyStr(<<>>)
        /\ call.prompt = RenderPrompt(call.handler.name, DictWithout(Carried(message), "task"),
                                      PyStr(<<>>))

\* C27 happens: analyze_error waits for invoke_intelligence, its agent
\* method having been given a memory summary that is not empty
C27_Witness ==
    /\ pc = "awaiting"
    /\ call.handler.name = <<"analyze", "_", "error">>
    /\ call.memory_summary = Lit("remembered")
    /\ call.prompt.memory_summary = PyStr(<<>>)

====
